---- MODULE Spec2Model ----
(***************************************************************************)
(* A model of bin/update_project_manifest.py: the metadata loader, the     *)
(* manual validator, the tree scanner, the conflict resolver and main().   *)
(*                                                                         *)
(* Python strings are sequences of one-character strings, ordered by code  *)
(* point as Python orders them.  A JSON value is a record tagged by t.     *)
(***************************************************************************)
EXTENDS Integers, Sequences, FiniteSets, TLC

VARIABLES
    pc,         \* position of the running program
    tree,       \* the directory tree under the scan root (never changes)
    strict,     \* args.strict
    engine,     \* is the jsonschema module importable, and the schema file's state
    stack,      \* os.walk: directories still to be yielded, next one first
    visited,    \* directories os.walk has yielded so far, in order
    entries,    \* scan_projects: entries
    warnings,   \* scan_projects: warnings
    kept,       \* resolve_conflicts: kept_sorted
    conflicts,  \* resolve_conflicts: conflicts_sorted
    writes,     \* the manifests write_manifest has written, in order
    diag,       \* lines written to sys.stderr
    exitCode,   \* the process's exit code, -1 while it runs
    file,       \* the file handed to load_json
    loaded,     \* what load_json returned
    verdict     \* what validate_metadata_manual did

vars == <<pc, tree, strict, engine, stack, visited, entries, warnings, kept,
          conflicts, writes, diag, exitCode, file, loaded, verdict>>

-----------------------------------------------------------------------------
(* Python str: code points and comparison *)

LowerSeq == <<"a", "b", "c", "d", "e", "f", "g", "h", "i", "j", "k", "l", "m", "n",
              "o", "p", "q", "r", "s", "t", "u", "v", "w", "x", "y", "z">>
DigitSeq == <<"0", "1", "2", "3", "4", "5", "6", "7", "8", "9">>
Lower == {LowerSeq[i] : i \in 1..Len(LowerSeq)}
Digits == {DigitSeq[i] : i \in 1..Len(DigitSeq)}

\* ord(c)
Code == [c \in Lower \cup Digits \cup {"\n", " ", "-", ".", "/", "A", "_"} |->
           IF c \in Lower THEN 96 + (CHOOSE i \in 1..Len(LowerSeq) : LowerSeq[i] = c)
           ELSE IF c \in Digits THEN 47 + (CHOOSE i \in 1..Len(DigitSeq) : DigitSeq[i] = c)
           ELSE CASE c = "\n" -> 10 [] c = " " -> 32 [] c = "-" -> 45 [] c = "." -> 46
                  [] c = "/" -> 47 [] c = "A" -> 65 [] c = "_" -> 95]

Min(a, b) == IF a <= b THEN a ELSE b

\* a < b for two Python strings: the first differing code point decides,
\* a proper prefix is smaller.
StrLess(a, b) ==
    LET n == Min(Len(a), Len(b))
        diff == {i \in 1..n : a[i] # b[i]}
    IN  IF diff = {} THEN Len(a) < Len(b)
        ELSE LET i == CHOOSE j \in diff : \A k \in diff : j <= k
             IN  Code[a[i]] < Code[b[i]]

\* x in s for two Python strings: s has x as a substring.
StrContains(s, x) ==
    \E i \in 0..(Len(s) - Len(x)) : \A j \in 1..Len(x) : s[i + j] = x[j]

\* c * n
Rep(c, n) == [i \in 1..n |-> c]

-----------------------------------------------------------------------------
(* JSON values, as json.loads returns them *)

JNum(n) == [t |-> "num", n |-> n]
JStr(s) == [t |-> "str", s |-> s]
JList(items) == [t |-> "list", items |-> items]
\* a dict keeps its keys in insertion order: a sequence of <<key, value>>
JDict(pairs) == [t |-> "dict", pairs |-> pairs]

Keys(d) == [i \in 1..Len(d.pairs) |-> d.pairs[i][1]]
HasKey(d, k) == \E i \in 1..Len(d.pairs) : d.pairs[i][1] = k
Get(d, k) == d.pairs[CHOOSE i \in 1..Len(d.pairs) : d.pairs[i][1] = k][2]

K_id == <<"i", "d">>
K_one_liner == <<"o", "n", "e", "_", "l", "i", "n", "e", "r">>
K_title == <<"t", "i", "t", "l", "e">>
K_tags == <<"t", "a", "g", "s">>
K_stack == <<"s", "t", "a", "c", "k">>
K_entrypoints == <<"e", "n", "t", "r", "y", "p", "o", "i", "n", "t", "s">>
K_foo == <<"f", "o", "o">>
K_bar == <<"b", "a", "r">>

-----------------------------------------------------------------------------
(* Python values and built-ins *)

\* Python's None; json.loads gives it for the JSON text null.
None == [t |-> "None"]
JBool(b) == [t |-> "bool", b |-> b]

\* a < b for the sort keys the program uses: a string itself, e["path"],
\* (e["id"], e["path"]) (tuples compare element by element) and c["id"]
KeyLess(key, a, b) ==
    CASE key = "self" -> StrLess(a, b)
      [] key = "path" -> StrLess(a.path, b.path)
      [] key = "id,path" -> StrLess(a.id, b.id) \/ (a.id = b.id /\ StrLess(a.path, b.path))
      [] key = "id" -> StrLess(a.id, b.id)

\* sorted(seq, key=...): a stable sort
Sorted(seq, key) ==
    LET n == Len(seq)
        before(j, i) == KeyLess(key, seq[j], seq[i])
                           \/ (~KeyLess(key, seq[i], seq[j]) /\ j < i)
        rank(i) == Cardinality({j \in 1..n : before(j, i)}) + 1
    IN  [k \in 1..n |-> seq[CHOOSE i \in 1..n : rank(i) = k]]

\* key in data: "TypeError" when data is not a container.
PyIn(key, data) ==
    CASE data.t = "dict" -> IF HasKey(data, key) THEN "true" ELSE "false"
      [] data.t = "list" -> IF \E i \in 1..Len(data.items) : data.items[i] = JStr(key)
                            THEN "true" ELSE "false"
      [] data.t = "str" -> IF StrContains(data.s, key) THEN "true" ELSE "false"
      [] OTHER -> "TypeError"

-----------------------------------------------------------------------------
(* load_json *)

\* A file: missing; present but read_text raises (no permission, a directory,
\* bytes that are not UTF-8); present with text that is not JSON; present
\* with JSON text, given by the value json.loads returns for it.
Missing == [kind |-> "missing"]
Unreadable == [kind |-> "unreadable"]
Malformed == [kind |-> "malformed"]
JsonFile(v) == [kind |-> "json", value |-> v]

Exists(f) == f.kind # "missing"

load_json(path, f) ==
    IF ~Exists(f) THEN [data |-> None, err |-> [msg |-> "missing", path |-> path]]
    ELSE IF f.kind = "json" THEN [data |-> f.value, err |-> None]
    ELSE [data |-> None,
          err |-> [msg |-> "invalid json",
                   detail |-> IF f.kind = "unreadable" THEN "OSError" ELSE "JSONDecodeError"]]

\* if err: an error string is never empty, None is false.
Truthy(e) == e # None

-----------------------------------------------------------------------------
(* validate_metadata_manual *)

IdMinRest == 1
IdMaxRest == 64
OneLinerMax == 120

IdFirst == Lower \cup Digits
IdRest == Lower \cup Digits \cup {"-", "_"}

\* ID_RE.match(s) for ^[a-z0-9][a-z0-9-_]{1,64}$ : $ also matches just
\* before a newline that ends the string.
ID_RE_match(s) ==
    \E n \in {Len(s), Len(s) - 1} :
        /\ n = Len(s) \/ (Len(s) >= 1 /\ s[Len(s)] = "\n")
        /\ n >= 1 + IdMinRest
        /\ n <= 1 + IdMaxRest
        /\ s[1] \in IdFirst
        /\ \A i \in 2..n : s[i] \in IdRest

Return(v) == [kind |-> "return", value |-> v]
Raise(exc) == [kind |-> "raise", exc |-> exc]

IsStr(v) == v.t = "str"
IsListOfStr(v) == v.t = "list" /\ \A i \in 1..Len(v.items) : IsStr(v.items[i])

\* lines 76-79, for one key
ArrayError(data, key) ==
    HasKey(data, key) /\ ~IsListOfStr(Get(data, key))

Allowed == {K_id, K_title, K_one_liner, K_tags, K_stack, K_entrypoints}

\* lines 88-91
NotAllowed(k) == k \notin Allowed
Extras(data) == SelectSeq(Keys(data), NotAllowed)

\* a slip: the extras are reported in the document's order
SortedExtras_unsorted(data) == Extras(data)

\* line 91: sorted(extras)
SortedExtras(data) == Sorted(Extras(data), "self")

\* lines 62-93: data is a dict that has both required keys
ValidateFields(data) ==
    IF ~IsStr(Get(data, K_id)) THEN Return([msg |-> "must be string", key |-> K_id])
    ELSE IF ~ID_RE_match(Get(data, K_id).s) THEN Return([msg |-> "id must match pattern"])
    ELSE IF ~IsStr(Get(data, K_one_liner))
        THEN Return([msg |-> "must be string", key |-> K_one_liner])
    ELSE IF Len(Get(data, K_one_liner).s) > OneLinerMax
        THEN Return([msg |-> "one_liner exceeds 120 chars"])
    ELSE IF HasKey(data, K_title) /\ ~IsStr(Get(data, K_title))
        THEN Return([msg |-> "must be string", key |-> K_title])
    ELSE IF ArrayError(data, K_tags)
        THEN Return([msg |-> "must be array of strings", key |-> K_tags])
    ELSE IF ArrayError(data, K_stack)
        THEN Return([msg |-> "must be array of strings", key |-> K_stack])
    ELSE IF HasKey(data, K_entrypoints) /\ Get(data, K_entrypoints).t # "dict"
        THEN Return([msg |-> "entrypoints must be object"])
    ELSE IF /\ HasKey(data, K_entrypoints)
            /\ \E i \in 1..Len(Get(data, K_entrypoints).pairs) :
                   ~IsStr(Get(data, K_entrypoints).pairs[i][2])
        THEN Return([msg |-> "entrypoints keys and values must be strings"])
    ELSE IF Extras(data) # <<>>
        THEN Return([msg |-> "unexpected fields", fields |-> SortedExtras(data)])
    ELSE Return(None)

\* a slip: the required keys are looked for in the other order
validate_metadata_manual_swapped(data) ==
    IF PyIn(K_id, data) = "TypeError" THEN Raise("TypeError")
    ELSE IF PyIn(K_one_liner, data) = "false"
        THEN Return([msg |-> "missing required field", key |-> K_one_liner])
    ELSE IF PyIn(K_id, data) = "false"
        THEN Return([msg |-> "missing required field", key |-> K_id])
    ELSE IF data.t # "dict" THEN Raise("AttributeError")
    ELSE ValidateFields(data)

\* lines 57-93, for whatever json.loads returned
validate_metadata_manual(data) ==
    IF PyIn(K_id, data) = "TypeError" THEN Raise("TypeError")
    ELSE IF PyIn(K_id, data) = "false"
        THEN Return([msg |-> "missing required field", key |-> K_id])
    ELSE IF PyIn(K_one_liner, data) = "false"
        THEN Return([msg |-> "missing required field", key |-> K_one_liner])
    ELSE IF data.t # "dict" THEN Raise("AttributeError")
    ELSE ValidateFields(data)

-----------------------------------------------------------------------------
(* The metadata files the loader and the validator are run on *)

Absent == [t |-> "absent"]
Opt(k, v) == IF v = Absent THEN <<>> ELSE << <<k, v>> >>
Reverse(seq) == [i \in 1..Len(seq) |-> seq[Len(seq) + 1 - i]]

IdChoices ==
    {Absent, JNum(1), JStr(<<>>), JStr(<<"a">>), JStr(<<"a", "b">>), JStr(<<"a", "b", "\n">>),
     JStr(<<"A", "b">>), JStr(<<"-", "b">>), JStr(<<"a", "_", "-">>),
     JStr(Rep("a", 1 + IdMaxRest)), JStr(Rep("a", 2 + IdMaxRest))}
OneLinerChoices ==
    {Absent, JNum(1), JStr(<<"x">>), JStr(Rep("x", OneLinerMax)),
     JStr(Rep("x", OneLinerMax + 1))}
TitleChoices == {Absent, JNum(1), JStr(<<"t">>)}
TagsChoices ==
    {Absent, JStr(<<"x">>), JList(<<>>), JList(<<JStr(<<"t">>)>>),
     JList(<<JStr(<<"t">>), JNum(1)>>)}
StackChoices == {Absent, None, JList(<<JStr(<<"s">>)>>)}
EntrypointsChoices ==
    {Absent, JList(<<>>), JDict(<<>>), JDict(<< <<<<"k">>, JStr(<<"v">>)>> >>),
     JDict(<< <<<<"k">>, JStr(<<"v">>)>>, <<<<"m">>, JNum(1)>> >>)}
ExtraChoices ==
    {<<>>, << <<K_foo, JNum(1)>> >>, << <<K_bar, JNum(2)>> >>,
     << <<K_foo, JNum(1)>>, <<K_bar, JNum(2)>> >>,
     << <<K_bar, JNum(2)>>, <<K_foo, JNum(1)>> >>}

\* a JSON object, with its keys in the order written or the reverse
DocOf(i, o, ti, tg, st, ep, ex, rev) ==
    LET ps == Opt(K_id, i) \o Opt(K_one_liner, o) \o Opt(K_title, ti) \o Opt(K_tags, tg)
                \o Opt(K_stack, st) \o Opt(K_entrypoints, ep) \o ex
    IN  JDict(IF rev THEN Reverse(ps) ELSE ps)

\* JSON texts whose top-level value is not an object
NonDicts ==
    {None, JNum(42), JBool(TRUE), JStr(<<"x">>), JStr(K_id),
     JStr(K_id \o <<" ">> \o K_one_liner), JList(<<>>), JList(<<JStr(K_id)>>),
     JList(<<JStr(K_id), JStr(K_one_liner)>>)}

OtherFiles == {Missing, Unreadable, Malformed} \cup {JsonFile(v) : v \in NonDicts}

META == <<"p", "r", "o", "j", "e", "c", "t", ".", "m", "e", "t", "a", "d", "a", "t", "a",
          ".", "j", "s", "o", "n">>

Unset == [unset |-> TRUE]

-----------------------------------------------------------------------------
(* SpecLoad: load_json on a file, then validate_metadata_manual on what it   *)
(* returned, as lines 134-140 chain them when no schema engine is installed. *)

IdleScan ==
    /\ tree = Unset /\ strict = FALSE /\ engine = Unset /\ stack = <<>>
    /\ visited = <<>> /\ entries = <<>> /\ warnings = <<>> /\ kept = <<>>
    /\ conflicts = <<>> /\ writes = <<>> /\ diag = <<>> /\ exitCode = -1

scanVars == <<tree, strict, engine, stack, visited, entries, warnings, kept,
              conflicts, writes, diag, exitCode>>

InitLoad ==
    /\ pc = "load"
    /\ \/ \E i \in IdChoices, o \in OneLinerChoices, ti \in TitleChoices,
              tg \in TagsChoices, st \in StackChoices, ep \in EntrypointsChoices,
              ex \in ExtraChoices, rev \in BOOLEAN :
                file = [path |-> <<"/", "r", "/">> \o META,
                        st |-> JsonFile(DocOf(i, o, ti, tg, st, ep, ex, rev))]
       \/ \E f \in OtherFiles : file = [path |-> <<"/", "r", "/">> \o META, st |-> f]
    /\ loaded = Unset
    /\ verdict = Unset
    /\ IdleScan

LoadJson ==
    /\ pc = "load"
    /\ loaded' = load_json(file.path, file.st)
    /\ pc' = IF Truthy(loaded'.err) THEN "done" ELSE "validate"
    /\ UNCHANGED <<file, verdict, scanVars>>

ValidateManual ==
    /\ pc = "validate"
    /\ verdict' = validate_metadata_manual(loaded.data)
    /\ pc' = "done"
    /\ UNCHANGED <<file, loaded, scanVars>>

NextLoad == LoadJson \/ ValidateManual

SpecLoad == InitLoad /\ [][NextLoad]_vars

-----------------------------------------------------------------------------
(* Properties of the loader and the manual validator (under SpecLoad) *)

\* the document validate_metadata_manual was run on
doc == file.st.value
Validated == pc = "done" /\ verdict # Unset
ValidatedObject == Validated /\ doc.t = "dict"

\* The rules of the manual validator, in the order the claims give: what it
\* is for a document to violate each, and the error that reports it.
EntryValuesAreStrings(d) ==
    \A i \in 1..Len(Get(d, K_entrypoints).pairs) : Get(d, K_entrypoints).pairs[i][2].t = "str"
ExtraSet(d) == {Keys(d)[i] : i \in 1..Len(d.pairs)} \ Allowed
\* the names of ExtraSet(d), ascending
AscendingExtras(d) ==
    CHOOSE q \in [1..Cardinality(ExtraSet(d)) -> ExtraSet(d)] :
        \A i, j \in 1..Cardinality(ExtraSet(d)) : i < j => StrLess(q[i], q[j])

Violates(r, d) ==
    CASE r = 1 -> ~HasKey(d, K_id)
      [] r = 2 -> ~HasKey(d, K_one_liner)
      [] r = 3 -> HasKey(d, K_id) /\ Get(d, K_id).t # "str"
      [] r = 4 -> HasKey(d, K_id) /\ Get(d, K_id).t = "str" /\ ~ID_RE_match(Get(d, K_id).s)
      [] r = 5 -> HasKey(d, K_one_liner) /\ Get(d, K_one_liner).t # "str"
      [] r = 6 -> /\ HasKey(d, K_one_liner) /\ Get(d, K_one_liner).t = "str"
                  /\ Len(Get(d, K_one_liner).s) > OneLinerMax
      [] r = 7 -> HasKey(d, K_title) /\ Get(d, K_title).t # "str"
      [] r = 8 -> HasKey(d, K_tags) /\ ~IsListOfStr(Get(d, K_tags))
      [] r = 9 -> HasKey(d, K_stack) /\ ~IsListOfStr(Get(d, K_stack))
      [] r = 10 -> HasKey(d, K_entrypoints) /\ Get(d, K_entrypoints).t # "dict"
      [] r = 11 -> /\ HasKey(d, K_entrypoints) /\ Get(d, K_entrypoints).t = "dict"
                   /\ ~EntryValuesAreStrings(d)
      [] r = 12 -> ExtraSet(d) # {}
ErrorOf(r, d) ==
    CASE r = 1 -> [msg |-> "missing required field", key |-> K_id]
      [] r = 2 -> [msg |-> "missing required field", key |-> K_one_liner]
      [] r = 3 -> [msg |-> "must be string", key |-> K_id]
      [] r = 4 -> [msg |-> "id must match pattern"]
      [] r = 5 -> [msg |-> "must be string", key |-> K_one_liner]
      [] r = 6 -> [msg |-> "one_liner exceeds 120 chars"]
      [] r = 7 -> [msg |-> "must be string", key |-> K_title]
      [] r = 8 -> [msg |-> "must be array of strings", key |-> K_tags]
      [] r = 9 -> [msg |-> "must be array of strings", key |-> K_stack]
      [] r = 10 -> [msg |-> "entrypoints must be object"]
      [] r = 11 -> [msg |-> "entrypoints keys and values must be strings"]
      [] r = 12 -> [msg |-> "unexpected fields", fields |-> AscendingExtras(d)]
Violated(d) == {r \in 1..12 : Violates(r, d)}
FirstViolated(d) == CHOOSE r \in Violated(d) : \A q \in Violated(d) : r <= q

\* C8: for every JSON object the validator returns the error of the first
\* rule, in the fixed order, that the object violates, and None exactly when
\* it violates none.
C8_FailFastOrder ==
    ValidatedObject =>
        /\ verdict.kind = "return"
        /\ verdict.value = IF Violated(doc) = {} THEN None
                           ELSE ErrorOf(FirstViolated(doc), doc)

\* C8 witness: an object with no id, no one_liner, a wrong title and an extra
\* field was validated and got the error of the missing id.
C8_Witness ==
    /\ ValidatedObject
    /\ {1, 2, 7, 12} \subseteq Violated(doc)
    /\ verdict = Return([msg |-> "missing required field", key |-> K_id])

\* C4 as stated: every object with a field outside the allowed set is
\* rejected with the error listing the sorted unexpected names.
C4_AlwaysListsExtras ==
    (ValidatedObject /\ ExtraSet(doc) # {}) =>
        verdict = Return([msg |-> "unexpected fields", fields |-> AscendingExtras(doc)])

\* C4 amended: every object with a field outside the allowed set is rejected;
\* the error lists the sorted unexpected names when the object violates none
\* of the rules checked before (rules 1-6 of the spec), and is the error of
\* the earlier rule otherwise; {"id":"a","one_liner":"x","foo":1} is rejected
\* for its id, which is too short for the pattern.
C4_ExtrasRejected ==
    (ValidatedObject /\ ExtraSet(doc) # {}) =>
        /\ verdict.kind = "return"
        /\ verdict.value # None
        /\ (Violated(doc) = {12}) =>
               verdict.value = [msg |-> "unexpected fields", fields |-> AscendingExtras(doc)]
        /\ (Violated(doc) # {12}) => verdict.value.msg # "unexpected fields"
        /\ doc = JDict(<< <<K_id, JStr(<<"a">>)>>, <<K_one_liner, JStr(<<"x">>)>>,
                          <<K_foo, JNum(1)>> >>)
               => verdict.value = [msg |-> "id must match pattern"]

\* C4 witness: an object whose only fault is the fields foo and bar, written
\* in that order, was rejected with ['bar', 'foo'].
C4_Witness ==
    /\ ValidatedObject
    /\ Extras(doc) = <<K_foo, K_bar>>
    /\ verdict = Return([msg |-> "unexpected fields", fields |-> <<K_bar, K_foo>>])

\* C9 as stated: load_json returns exactly one of a document and a failure
\* reason; "missing: <path>" for a missing file, "invalid json: <detail>"
\* for content that cannot be read or parsed.
C9_ExactlyOne ==
    loaded # Unset =>
        /\ (loaded.data # None) # (loaded.err # None)
        /\ file.st.kind = "missing" => loaded.err = [msg |-> "missing", path |-> file.path]
        /\ file.st.kind \in {"unreadable", "malformed"} =>
               (loaded.err # None /\ loaded.err.msg = "invalid json")

-----------------------------------------------------------------------------
(* resolve_conflicts *)

\* lines 166-180, on the list the for loop of line 165 runs over.  by_id is
\* a dict: its keys come in the order in which they were first inserted.
ResolveFrom(ordered) ==
    LET n == Len(ordered)
        isFirst(i) == \A j \in 1..(i - 1) : ordered[j].id # ordered[i].id
        firsts == SelectSeq([i \in 1..n |-> i], isFirst)
        items(k) == SelectSeq(ordered, LAMBDA e : e.id = ordered[firsts[k]].id)
        kept_ == [k \in 1..Len(firsts) |-> items(k)[1]]
        shared == SelectSeq([k \in 1..Len(firsts) |-> k], LAMBDA k : Len(items(k)) > 1)
        conflicts_ == [c \in 1..Len(shared) |->
                         [id |-> ordered[firsts[shared[c]]].id,
                          paths |-> [m \in 1..Len(items(shared[c])) |->
                                        items(shared[c])[m].path]]]
    IN  [kept |-> Sorted(kept_, "id,path"), conflicts |-> Sorted(conflicts_, "id")]

\* a slip: the entries are grouped in the order the scan found them
resolve_conflicts_unsorted(es) == ResolveFrom(es)

\* lines 163-180
resolve_conflicts(es) == ResolveFrom(Sorted(es, "path"))

-----------------------------------------------------------------------------
(* SpecResolve: resolve_conflicts on a list of entries *)

MaxEntries == 3

P_zeta == <<"/", "a", "/", "z", "e", "t", "a">>
P_alpha == <<"/", "a", "/", "a", "l", "p", "h", "a">>
P_a_b == <<"/", "a", "-", "b">>
SomeIds == {<<"p", "1">>, <<"p", "-">>, <<"p">> \o <<"1", "0">>}
SomePaths == {P_zeta, P_alpha, P_a_b}
SomeEntries == [id : SomeIds, path : SomePaths]

SeqsUpTo(S, n) == UNION {[1..k -> S] : k \in 0..n}

InitResolve ==
    /\ pc = "resolve"
    /\ entries \in SeqsUpTo(SomeEntries, MaxEntries)
    /\ kept = <<>> /\ conflicts = <<>>
    /\ tree = Unset /\ strict = FALSE /\ engine = Unset /\ stack = <<>>
    /\ visited = <<>> /\ warnings = <<>> /\ writes = <<>> /\ diag = <<>>
    /\ exitCode = -1 /\ file = Unset /\ loaded = Unset /\ verdict = Unset

ResolveOnly ==
    /\ pc = "resolve"
    /\ tree = Unset
    /\ kept' = resolve_conflicts(entries).kept
    /\ conflicts' = resolve_conflicts(entries).conflicts
    /\ pc' = "resolved"
    /\ UNCHANGED <<tree, strict, engine, stack, visited, entries, warnings, writes,
                   diag, exitCode, file, loaded, verdict>>

NextResolve == ResolveOnly

SpecResolve == InitResolve /\ [][NextResolve]_vars

\* how often x occurs in seq
Count(seq, x) == Cardinality({i \in 1..Len(seq) : seq[i] = x})
IdsOf(seq) == {seq[i].id : i \in 1..Len(seq)}
GroupPaths(seq, id) ==
    LET g == SelectSeq(seq, LAMBDA e : e.id = id) IN [i \in 1..Len(g) |-> g[i].path]

-----------------------------------------------------------------------------
(* validate_metadata_schema *)

\* The schema engine's verdict when jsonschema is installed and the schema
\* file loads: the schema file is not part of the source, so the Metadata
\* Document shape of the specification stands for it.
SchemaAccepts(data) == data.t = "dict" /\ Violated(data) = {}

SCHEMA_PATH == <<"/", "s", "c", "h", "e", "m", "a", ".", "j", "s", "o", "n">>

\* lines 96-109; eng.jsonschema: the import of line 98 succeeds
validate_metadata_schema(data, eng) ==
    IF ~eng.jsonschema THEN validate_metadata_manual(data)
    ELSE IF Truthy(load_json(SCHEMA_PATH, eng.schema).err)
        THEN Return([msg |-> "schema load failed",
                     err |-> load_json(SCHEMA_PATH, eng.schema).err])
    ELSE IF ~SchemaAccepts(data) THEN Return([msg |-> "schema validation failed"])
    ELSE Return(None)

-----------------------------------------------------------------------------
(* The directory tree and scan_projects *)

GIT == <<".", "g", "i", "t">>
SKIP_DIRS ==
    {GIT,
     <<".", "c", "o", "d", "e", "x">>,
     <<"n", "o", "d", "e", "_", "m", "o", "d", "u", "l", "e", "s">>,
     <<".", "v", "e", "n", "v">>,
     <<"v", "e", "n", "v">>,
     <<"t", "a", "r", "g", "e", "t">>,
     <<"d", "i", "s", "t">>,
     <<"b", "u", "i", "l", "d">>,
     <<".", "t", "o", "x">>,
     <<".", "p", "y", "t", "e", "s", "t", "_", "c", "a", "c", "h", "e">>,
     <<".", "m", "y", "p", "y", "_", "c", "a", "c", "h", "e">>,
     <<".", "c", "a", "c", "h", "e">>}

\* current_path / name
Join(path, name) == path \o <<"/">> \o name

\* A directory of the tree: the names of its child directories, whether it
\* holds a regular file named .git, its project.metadata.json and that
\* file's st_mtime in tenths of a second.
Filenames(d) ==
    (IF d.gitFile THEN {GIT} ELSE {}) \cup (IF Exists(d.meta) THEN {META} ELSE {})

\* lines 112-117
is_repo_root(dirnames, filenames) == GIT \in dirnames \/ GIT \in filenames

\* a slip: every child directory stays in the walk
Pruned_nothing(dirnames) == dirnames

\* line 129
Pruned(dirnames) == dirnames \ SKIP_DIRS

\* a slip: the walk goes on beneath a repository root
Descend_into_repo(has_repo, dirnames) == dirnames

\* line 158: the child directories os.walk still descends into
Descend(has_repo, dirnames) == IF has_repo THEN {} ELSE dirnames

\* lines 146-155
OptField(data, key, name) == IF HasKey(data, key) THEN name :> Get(data, key) ELSE <<>>
MakeEntry(current, d, data) ==
    [id |-> Get(data, K_id).s,
     path |-> current,
     one_liner |-> Get(data, K_one_liner).s,
     source_metadata |-> META,
     source_mtime |-> d.mtime10 \div 10]
    @@ OptField(data, K_title, "title") @@ OptField(data, K_tags, "tags")
    @@ OptField(data, K_stack, "stack") @@ OptField(data, K_entrypoints, "entrypoints")

WarningItem(path, message) == [path |-> path, message |-> message]

\* lines 131-156 for a repository root: the entries and warnings appended,
\* and how the iteration ends: "none", or the exception that leaves the loop
Contribution(es, ws, exit) == [entries |-> es, warnings |-> ws, exit |-> exit]
ScanRepo(current, d, isStrict, eng) ==
    LET metadata_path == Join(current, META)
        ld == load_json(metadata_path, d.meta)
        v == validate_metadata_schema(ld.data, eng)
        abort == IF isStrict THEN "SystemExit" ELSE "none"
    IN  IF ~Exists(d.meta) THEN Contribution(<<>>, <<>>, "none")
        ELSE IF Truthy(ld.err)
            THEN Contribution(<<>>, <<WarningItem(metadata_path, ld.err)>>, abort)
        ELSE IF v.kind = "raise" THEN Contribution(<<>>, <<>>, v.exc)
        ELSE IF Truthy(v.value)
            THEN Contribution(<<>>, <<WarningItem(metadata_path, v.value)>>, abort)
        ELSE Contribution(<<MakeEntry(current, d, ld.data)>>, <<>>, "none")

\* the orders in which os.scandir may list a set of names
Orders(S) == {q \in [1..Cardinality(S) -> S] : \A i, j \in 1..Cardinality(S) : i # j => q[i] # q[j]}

-----------------------------------------------------------------------------
(* The trees the scan is run on *)

ROOT == <<"/", "r">>
N_a == <<"a">>
N_b == <<"b">>
N_n == <<"n">>
N_node_modules == <<"n", "o", "d", "e", "_", "m", "o", "d", "u", "l", "e", "s">>
D_a == Join(ROOT, N_a)
D_b == Join(ROOT, N_b)
D_n == Join(D_a, N_n)
D_nm == Join(ROOT, N_node_modules)

Str(s) == JStr(s)
ValidDoc1 ==
    JDict(<< <<K_id, Str(<<"p", "1">>)>>, <<K_one_liner, Str(<<"d", "e", "m", "o">>)>>,
             <<K_title, Str(<<"t">>)>>, <<K_tags, JList(<<Str(<<"x">>)>>)>> >>)
ValidDoc2 ==
    JDict(<< <<K_one_liner, Str(<<"d", "e", "m", "o">>)>>, <<K_id, Str(<<"p", "0">>)>> >>)
InvalidDoc == JDict(<< <<K_id, Str(<<"a">>)>>, <<K_one_liner, Str(<<"x">>)>>,
                       <<K_foo, JNum(1)>> >>)

\* what a directory may hold: a version-control marker and a metadata file
Kind(git, meta) == [present |-> TRUE, git |-> git, meta |-> meta]
NoDir == [present |-> FALSE, git |-> "none", meta |-> Missing]
Plain == Kind("none", Missing)

RootKinds == {Plain, Kind("dir", JsonFile(ValidDoc2))}
AKinds == {Kind(g, m) : g \in {"none", "dir", "file"},
                        m \in {Missing, Malformed, JsonFile(None), JsonFile(InvalidDoc),
                               JsonFile(ValidDoc1)}}
GitDirKinds == {Plain, Kind("file", JsonFile(ValidDoc1))}
NKinds == {NoDir, Kind("file", JsonFile(ValidDoc1)), Kind("file", Malformed)}
BKinds == {Kind(g, m) : g \in {"none", "file"},
                        m \in {Missing, Unreadable, JsonFile(JList(<<Str(K_id), Str(K_one_liner)>>)),
                               JsonFile(ValidDoc1), JsonFile(ValidDoc2)}}
NmKinds == {NoDir, Kind("file", JsonFile(ValidDoc1)), Kind("file", Malformed)}

Dir(children, k, mtime10) ==
    [dirnames |-> children \cup (IF k.git = "dir" THEN {GIT} ELSE {}),
     gitFile |-> k.git = "file", meta |-> k.meta, mtime10 |-> mtime10]
At(path, k, d) == IF k.present THEN path :> d ELSE <<>>
Name(k, name) == IF k.present THEN {name} ELSE {}
\* the .git directory of a directory whose marker is a directory
GitDirOf(path, k, gk) == IF k.git = "dir" THEN Join(path, GIT) :> Dir({}, gk, 31) ELSE <<>>

MakeTree(rk, ak, gk, nk, bk, mk) ==
    At(ROOT, rk, Dir({N_a} \cup Name(bk, N_b) \cup Name(mk, N_node_modules), rk, 15))
    @@ GitDirOf(ROOT, rk, Plain)
    @@ At(D_a, ak, Dir(Name(nk, N_n), ak, 27)) @@ GitDirOf(D_a, ak, gk)
    @@ At(D_n, nk, Dir({}, nk, 42))
    @@ At(D_b, bk, Dir({}, bk, 59))
    @@ At(D_nm, mk, Dir({}, mk, 63))

Engines == {[jsonschema |-> FALSE, schema |-> Missing],
            [jsonschema |-> TRUE, schema |-> Missing],
            [jsonschema |-> TRUE, schema |-> JsonFile(JDict(<<>>))]}

-----------------------------------------------------------------------------
(* Spec: main() *)

Init ==
    /\ pc = "scan"
    /\ \E rk \in RootKinds, ak \in AKinds, gk \in GitDirKinds, nk \in NKinds,
          bk \in BKinds, mk \in NmKinds :
            /\ ak.git # "dir" => gk = Plain
            /\ tree = MakeTree(rk, ak, gk, nk, bk, mk)
    /\ strict \in BOOLEAN
    /\ engine \in Engines
    /\ stack = <<ROOT>>
    /\ visited = <<>> /\ entries = <<>> /\ warnings = <<>>
    /\ kept = <<>> /\ conflicts = <<>> /\ writes = <<>> /\ diag = <<>>
    /\ exitCode = -1
    /\ file = Unset /\ loaded = Unset /\ verdict = Unset

unitVars == <<file, loaded, verdict>>

\* lines 124-158: one iteration of the loop over os.walk
Visit ==
    /\ pc = "scan"
    /\ stack # <<>>
    /\ LET current == Head(stack)
           d == tree[current]
           has_repo == is_repo_root(d.dirnames, Filenames(d))
           dirnames == Descend(has_repo, Pruned(d.dirnames))
           out == IF has_repo THEN ScanRepo(current, d, strict, engine)
                  ELSE Contribution(<<>>, <<>>, "none")
       IN  /\ visited' = Append(visited, current)
           /\ entries' = entries \o out.entries
           /\ warnings' = warnings \o out.warnings
           /\ IF out.exit = "none"
              THEN /\ \E order \in Orders(dirnames) :
                        stack' = [i \in 1..Len(order) |-> Join(current, order[i])]
                                     \o Tail(stack)
                   /\ UNCHANGED <<pc, diag, exitCode>>
              ELSE \* SystemExit(err) or an uncaught exception ends the process
                   /\ pc' = "exit"
                   /\ exitCode' = 1
                   /\ diag' = Append(diag, [raised |-> out.exit])
                   /\ UNCHANGED stack
    /\ UNCHANGED <<tree, strict, engine, kept, conflicts, writes, unitVars>>

\* line 160, line 209
ScanReturns ==
    /\ pc = "scan"
    /\ stack = <<>>
    /\ pc' = "resolve"
    /\ UNCHANGED <<tree, strict, engine, stack, visited, entries, warnings, kept,
                   conflicts, writes, diag, exitCode, unitVars>>

\* line 210
Resolve ==
    /\ pc = "resolve"
    /\ tree # Unset
    /\ kept' = resolve_conflicts(entries).kept
    /\ conflicts' = resolve_conflicts(entries).conflicts
    /\ pc' = "write"
    /\ UNCHANGED <<tree, strict, engine, stack, visited, entries, warnings, writes,
                   diag, exitCode, unitVars>>

\* lines 183-194
Manifest(root, es, cs) ==
    [version |-> "1.0", root |-> root, generated_at |-> "now", projects |-> es]
    @@ (IF cs # <<>> THEN "conflicts" :> cs ELSE <<>>)

\* line 211
WriteManifest ==
    /\ pc = "write"
    /\ writes' = Append(writes, Manifest(ROOT, kept, conflicts))
    /\ pc' = "report"
    /\ UNCHANGED <<tree, strict, engine, stack, visited, entries, warnings, kept,
                   conflicts, diag, exitCode, unitVars>>

\* lines 213-217
Report ==
    /\ pc = "report"
    /\ diag' = [i \in 1..Len(warnings) |-> [warning |-> warnings[i]]]
                 \o (IF conflicts # <<>> THEN <<[summary |-> "duplicate project ids"]>>
                     ELSE <<>>)
    /\ exitCode' = 0
    /\ pc' = "exit"
    /\ UNCHANGED <<tree, strict, engine, stack, visited, entries, warnings, kept,
                   conflicts, writes, unitVars>>

Next == Visit \/ ScanReturns \/ Resolve \/ WriteManifest \/ Report

Spec == Init /\ [][Next]_vars

-----------------------------------------------------------------------------
(* Properties of the scan and of main() (under Spec) *)

Range(seq) == {seq[i] : i \in 1..Len(seq)}
Dirs == DOMAIN tree

\* q is a directory strictly above p
ProperAncestor(q, p) ==
    Len(q) < Len(p) /\ SubSeq(p, 1, Len(q)) = q /\ p[Len(q) + 1] = "/"
AtOrBeneath(q, p) == p = q \/ ProperAncestor(q, p)
BaseName(p) ==
    LET slash == CHOOSE i \in 1..Len(p) : p[i] = "/" /\ \A j \in (i + 1)..Len(p) : p[j] # "/"
    IN  SubSeq(p, slash + 1, Len(p))

\* a .git directory or a .git file among the directory's direct children
HasMarker(p) == GIT \in tree[p].dirnames \/ tree[p].gitFile
\* a directory below the scan root whose name is in the denylist
Denylisted(p) == p # ROOT /\ BaseName(p) \in SKIP_DIRS
HasMetaFile(p) == tree[p].meta.kind # "missing"
\* the metadata file loads and validates: it holds a JSON object that meets
\* every rule, and the schema engine, if installed, can load its schema
MetaValid(p) ==
    /\ tree[p].meta.kind = "json"
    /\ tree[p].meta.value.t = "dict"
    /\ Violated(tree[p].meta.value) = {}
    /\ engine.jsonschema => engine.schema.kind = "json"
MetaFails(p) == HasMetaFile(p) /\ ~MetaValid(p)
\* the directories a complete scan visits
ShouldVisit(p) ==
    \A q \in Dirs :
        AtOrBeneath(q, p) => (~Denylisted(q) /\ (q # p => ~HasMarker(q)))

EntriesAt(p) == {i \in 1..Len(entries) : entries[i].path = p}
WarningsAt(p) == {i \in 1..Len(warnings) : warnings[i].path = Join(p, META)}
\* the entry the claims expect of a repository root with a valid document
OptionalNames == {"title", "tags", "stack", "entrypoints"}
KeyOf(name) ==
    CASE name = "title" -> K_title [] name = "tags" -> K_tags
      [] name = "stack" -> K_stack [] name = "entrypoints" -> K_entrypoints
EntryMatches(e, p) ==
    LET data == tree[p].meta.value
    IN  /\ e.id = Get(data, K_id).s
        /\ e.one_liner = Get(data, K_one_liner).s
        /\ e.path = p
        /\ e.source_metadata = META
        /\ DOMAIN e = {"id", "path", "one_liner", "source_metadata", "source_mtime"}
                        \cup {n \in OptionalNames : HasKey(data, KeyOf(n))}
        /\ \A n \in OptionalNames : HasKey(data, KeyOf(n)) => e[n] = Get(data, KeyOf(n))

\* C2 as stated: the manifest is written at most once and only after the
\* scan has visited everything it visits; it is not written exactly when
\* strict mode is set and a visited repository root's metadata file fails,
\* and then the scan stopped at the first such file with a non-zero exit.
C2_WriteOnceOrStrictAbort ==
    /\ Len(writes) <= 1
    /\ writes # <<>> => (stack = <<>> /\ pc \in {"report", "exit"})
    /\ pc = "exit" =>
          /\ writes = <<>> <=>
                (strict /\ \E p \in Range(visited) : HasMarker(p) /\ MetaFails(p))
          /\ writes = <<>> =>
                /\ exitCode # 0
                /\ HasMarker(visited[Len(visited)]) /\ MetaFails(visited[Len(visited)])
                /\ \A i \in 1..(Len(visited) - 1) :
                      ~(HasMarker(visited[i]) /\ MetaFails(visited[i]))

\* C3 as stated: without strict mode every run ends with exit code 0 and one
\* manifest written; every visited repository root whose metadata file fails
\* has a warning and no entry, and the scan went on to every directory a
\* complete scan visits.
C3_NonStrictNeverFatal ==
    (pc = "exit" /\ ~strict) =>
        /\ exitCode = 0
        /\ Len(writes) = 1
        /\ Range(visited) = {p \in Dirs : ShouldVisit(p)}
        /\ \A p \in Range(visited) :
              (HasMarker(p) /\ MetaFails(p)) =>
                  /\ WarningsAt(p) # {}
                  /\ EntriesAt(p) = {}
                  /\ \A i \in 1..Len(writes[1].projects) : writes[1].projects[i].path # p

\* C5: nothing beneath a repository root is visited, whatever its metadata
\* file holds: no visited directory has a proper ancestor with a marker, every
\* entry and warning belongs to a visited directory, and no entry's path is
\* a proper ancestor of another's.
C5_NoDescentIntoRepo ==
    /\ \A p \in Range(visited) : \A q \in Dirs : ProperAncestor(q, p) => ~HasMarker(q)
    /\ \A i \in 1..Len(entries) : entries[i].path \in Range(visited)
    /\ \A i \in 1..Len(warnings) :
          \E p \in Range(visited) : warnings[i].path = Join(p, META)
    /\ \A i, j \in 1..Len(entries) : ~ProperAncestor(entries[i].path, entries[j].path)

\* C5 witness: /r/a is a repository root with a valid document, /r/a/n is a
\* repository root with a valid document too, the run has ended and only
\* /r/a has an entry.
C5_Witness ==
    /\ pc = "exit" /\ exitCode = 0
    /\ HasMarker(D_a) /\ MetaValid(D_a)
    /\ D_n \in Dirs /\ HasMarker(D_n) /\ MetaValid(D_n)
    /\ D_a \in Range(visited)
    /\ \E i \in 1..Len(entries) : entries[i].path = D_a
    /\ \A i \in 1..Len(entries) : entries[i].path # D_n

\* C6: no directory at or beneath a denylisted directory below the scan root
\* is visited or has an entry or a warning; and a visited directory whose
\* marker is a .git directory is still taken for a repository root: none of
\* its children is visited and its valid metadata file gives an entry.
C6_DenylistPruned ==
    /\ \A q \in Dirs : Denylisted(q) =>
          /\ \A p \in Range(visited) : ~AtOrBeneath(q, p)
          /\ \A i \in 1..Len(entries) : ~AtOrBeneath(q, entries[i].path)
          /\ \A i \in 1..Len(warnings) : ~ProperAncestor(q, warnings[i].path)
    /\ \A p \in Range(visited) : GIT \in tree[p].dirnames =>
          /\ \A c \in Range(visited) : ~ProperAncestor(p, c)
          /\ MetaValid(p) => EntriesAt(p) # {}

\* C6 witness: /r/node_modules and /r/a/.git each hold a .git file and a
\* valid document, /r/a has a valid document, the run has ended, and the
\* only entry is the one of /r/a.
C6_Witness ==
    /\ pc = "exit" /\ exitCode = 0
    /\ D_nm \in Dirs /\ HasMarker(D_nm) /\ MetaValid(D_nm)
    /\ Join(D_a, GIT) \in Dirs /\ HasMarker(Join(D_a, GIT)) /\ MetaValid(Join(D_a, GIT))
    /\ MetaValid(D_a)
    /\ Len(entries) = 1 /\ entries[1].path = D_a

\* the entries a complete scan of the tree collects, as a set
ExpectedEntries ==
    {MakeEntry(p, tree[p], tree[p].meta.value) :
        p \in {q \in Dirs : ShouldVisit(q) /\ HasMarker(q) /\ MetaValid(q)}}

\* C7: the projects and conflicts written are those resolve_conflicts gives
\* for the tree's entries taken in any order, so they do not depend on the
\* order in which the directories were traversed.
C7_OrderIndependent ==
    writes # <<>> =>
        \A q \in Orders(ExpectedEntries) :
            /\ writes[1].projects = resolve_conflicts(q).kept
            /\ conflicts = resolve_conflicts(q).conflicts
            /\ ("conflicts" \in DOMAIN writes[1]) = (conflicts # <<>>)
            /\ "conflicts" \in DOMAIN writes[1] => writes[1].conflicts = conflicts

\* C7 witness: /r/b was visited before /r/a, both hold the id p1, and the
\* manifest written keeps /r/a and records the conflict.
C7_Witness ==
    /\ writes # <<>>
    /\ \E i, j \in 1..Len(visited) : i < j /\ visited[i] = D_b /\ visited[j] = D_a
    /\ Len(entries) = 2 /\ entries[1].path = D_b /\ entries[2].path = D_a
    /\ Len(writes[1].projects) = 1 /\ writes[1].projects[1].path = D_a
    /\ writes[1].conflicts = <<[id |-> <<"p", "1">>, paths |-> <<D_a, D_b>>]>>

\* C10 as stated: a visited directory contributes one entry, one warning or
\* nothing: nothing exactly when it has no marker or no metadata file, a
\* warning exactly when the file fails to load or validate, an entry exactly
\* when the file loads and validates, with the fields of the document.
C10_OneContribution ==
    \A p \in Range(visited) :
        /\ Cardinality(EntriesAt(p)) + Cardinality(WarningsAt(p)) <= 1
        /\ (EntriesAt(p) = {} /\ WarningsAt(p) = {}) <=> (~HasMarker(p) \/ ~HasMetaFile(p))
        /\ WarningsAt(p) # {} <=> (HasMarker(p) /\ MetaFails(p))
        /\ EntriesAt(p) # {} <=> (HasMarker(p) /\ HasMetaFile(p) /\ MetaValid(p))
        /\ \A i \in EntriesAt(p) : EntryMatches(entries[i], p)

====
